---- MODULE Spec2Model ----
(***************************************************************************)
(* Model of src/cursor-effect.js: the particle (Circle), the burst (Boom)  *)
(* and the controller (CursorSpecialEffects) with the host's frame queue   *)
(* (requestAnimationFrame / cancelAnimationFrame).                         *)
(*                                                                         *)
(* Arithmetic is fixed point: positions are in 1/10000 pixel, speeds and   *)
(* the sine and cosine of an angle in 1/100, so sin(angle) * speed is an   *)
(* exact product in position units and 0.3 is 3000.  Floating-point        *)
(* rounding is not modelled.  An angle is written as its offset from pi in *)
(* degrees (57 degrees stands for 1 radian).                               *)
(***************************************************************************)
EXTENDS Integers, Sequences, FiniteSets

VARIABLES
    booms,          \* CursorSpecialEffects.booms: sequence of Boom records
    running,        \* CursorSpecialEffects.running
    animationId,    \* CursorSpecialEffects.animationId (Null or a handle)
    globalWidth,    \* CursorSpecialEffects.globalWidth  (pixels)
    globalHeight,   \* CursorSpecialEffects.globalHeight (pixels)
    canvas,         \* width/height of renderCanvas and computerCanvas
    rafQueue,       \* host: frame callbacks requested, not yet fired or cancelled
    listeners,      \* host: the events of window this controller listens to
    culled,         \* history: circles spliced out by the last handler
    ops,            \* history: what run did to bursts and surfaces in it
    lastEvent       \* history: the handler that ran last

vars == <<booms, running, animationId, globalWidth, globalHeight, canvas,
          rafQueue, listeners, culled, ops, lastEvent>>

----------------------------------------------------------------------------
(* Bounds of the model *)

\* bursts alive at once (the pointer-press is disabled beyond it)
MaxBooms == 2

\* particles per burst; stands for the default circleCount of Boom
CircleCount == 2

(* Program constants *)

\* the 0.3 of Circle.move, in position units
Gravity == 3000

Null == 0

\* n pixels in position units
Px(n) == n * 10000

----------------------------------------------------------------------------
(* Math.sin and Math.cos of the angle pi + a degrees, in 1/100 *)

Angles == {-57, -30, 0, 30, 57}

Sin100(a) == CASE a = -57 -> 84
               [] a = -30 -> 50
               [] a = 0   -> 0
               [] a = 30  -> -50
               [] a = 57  -> -84

Cos100(a) == CASE a = -57 -> -54
               [] a = -30 -> -87
               [] a = 0   -> -100
               [] a = 30  -> -87
               [] a = 57  -> -54

----------------------------------------------------------------------------
(* Circle *)

\* new Circle({origin, speed, color, angle}): origin is a copy of the
\* argument and position a copy of origin, so no two fields share an
\* object
NewCircle(origin, shot) ==
    [origin      |-> origin,
     position    |-> origin,
     color       |-> shot.color,
     speed       |-> shot.speed,
     angle       |-> shot.angle,
     renderCount |-> 0]

\* Circle.move, with the gravity term read after the increment
CircleMoveEager(c) ==
    [c EXCEPT !.position.x = @ + Sin100(c.angle) * c.speed,
              !.position.y = @ + Cos100(c.angle) * c.speed
                               + ((c.renderCount + 1) * Gravity),
              !.renderCount = @ + 1]

\* Circle.move
CircleMove(c) ==
    [c EXCEPT !.position.x = @ + Sin100(c.angle) * c.speed,
              !.position.y = @ + Cos100(c.angle) * c.speed
                               + (c.renderCount * Gravity),
              !.renderCount = @ + 1]

----------------------------------------------------------------------------
(* Boom *)

\* Array.prototype.splice(i, 1) on a 1-based sequence
Splice(s, i) == SubSeq(s, 1, i - 1) \o SubSeq(s, i + 1, Len(s))

\* the test of Boom.move with non-strict comparisons
OutOfAreaLoose(c, area) ==
    \/ c.position.x <= 0
    \/ c.position.x >= Px(area.width)
    \/ c.position.y >= Px(area.height)

\* the test of Boom.move, lines 93-95
OutOfArea(c, area) ==
    \/ c.position.x < 0
    \/ c.position.x > Px(area.width)
    \/ c.position.y > Px(area.height)

\* the loop of Boom.init: one circle at the origin per drawn (angle, speed)
RECURSIVE InitLoop(_, _, _)
InitLoop(origin, shots, n) ==
    IF n = 0 THEN <<>>
    ELSE Append(InitLoop(origin, shots, n - 1), NewCircle(origin, shots[n]))

\* new Boom({origin, area, circleCount}), circleCount defaulting to 10 in
\* the source.  History fields: id, inits (calls of init), gone (the
\* circles spliced out so far), moves (calls of move), frames (frame
\* callbacks fired since creation), syncRuns (calls of run made by a
\* mousedown since creation)
BoomConstructor(id, origin, area, count) ==
    [id          |-> id,
     origin      |-> origin,
     circleCount |-> count,
     area        |-> area,
     stop        |-> FALSE,
     circles     |-> <<>>,
     inits       |-> 0,
     gone        |-> <<>>,
     moves       |-> 0,
     frames      |-> 0,
     syncRuns    |-> 0]

\* Boom.init whose loop starts at 1: one circle too few
BoomInitShort(b, shots) ==
    [b EXCEPT !.circles = @ \o InitLoop(b.origin, shots,
                                        IF b.circleCount = 0 THEN 0
                                        ELSE b.circleCount - 1),
              !.inits   = @ + 1]

\* Boom.init: circleCount circles pushed, the k-th as shots[k] draws it
BoomInit(b, shots) ==
    [b EXCEPT !.circles = @ \o InitLoop(b.origin, shots, b.circleCount),
              !.inits   = @ + 1]

\* a Boom whose constructor derives stop from the still empty circles
NewBoomStopped(id, origin, area, shots) ==
    [BoomInit(BoomConstructor(id, origin, area, Len(shots)), shots)
        EXCEPT !.stop = TRUE]

\* new Boom({origin, area}) followed by Boom.init(), as handleMouseDown
\* does, circleCount being the number of shots drawn
NewBoom(id, origin, area, shots) ==
    BoomInit(BoomConstructor(id, origin, area, Len(shots)), shots)

\* the circles cs[1..n], every one at position pos
RECURSIVE AllAt(_, _, _)
AllAt(cs, n, pos) ==
    IF n = 0 THEN <<>>
    ELSE Append(AllAt(cs, n - 1, pos), [cs[n] EXCEPT !.position = pos])

\* the loop body of Boom.move when the circles of a burst share one
\* position object (a constructor that keeps the origin it is given and
\* uses it as position): the step of one circle moves them all
MoveAtShared(st, i, area) ==
    IF OutOfArea(CircleMove(st.circles[i]), area)
    THEN [circles |-> AllAt(Splice(st.circles, i), Len(st.circles) - 1,
                            CircleMove(st.circles[i]).position),
          gone    |-> Append(st.gone, CircleMove(st.circles[i]))]
    ELSE [circles |-> AllAt([st.circles EXCEPT ![i] = CircleMove(@)],
                            Len(st.circles),
                            CircleMove(st.circles[i]).position),
          gone    |-> st.gone]

\* the loop body of Boom.move with splice(i, 0, circle), which inserts the
\* circle again instead of removing it
MoveAtInsert(st, i, area) ==
    IF OutOfArea(CircleMove(st.circles[i]), area)
    THEN [circles |-> SubSeq(st.circles, 1, i - 1)
                        \o <<CircleMove(st.circles[i]),
                             CircleMove(st.circles[i])>>
                        \o SubSeq(st.circles, i + 1, Len(st.circles)),
          gone    |-> st.gone]
    ELSE [circles |-> [st.circles EXCEPT ![i] = CircleMove(@)],
          gone    |-> st.gone]

\* one pass of the body of the loop of Boom.move, lines 89-97, at index i
\* (1-based): st.circles is this.circles, st.gone collects the circles
\* spliced out (history)
MoveAt(st, i, area) ==
    IF OutOfArea(CircleMove(st.circles[i]), area)
    THEN [circles |-> Splice(st.circles, i),
          gone    |-> Append(st.gone, CircleMove(st.circles[i]))]
    ELSE [circles |-> [st.circles EXCEPT ![i] = CircleMove(@)],
          gone    |-> st.gone]

\* the loop of Boom.move written with an ascending index
RECURSIVE MoveLoopForward(_, _, _)
MoveLoopForward(st, i, area) ==
    IF i > Len(st.circles) THEN st
    ELSE CHOOSE r \in {MoveLoopForward(next, i + 1, area) :
                         next \in {MoveAt(st, i, area)}} : TRUE

\* the loop of Boom.move, line 88: i runs from length-1 down to 0 (here
\* from Len down to 1).  `next` is the value of the loop's variables after
\* the pass at i; the CHOOSE over a singleton only gives it a name, so that
\* it is computed once
RECURSIVE MoveLoop(_, _, _)
MoveLoop(st, i, area) ==
    IF i < 1 THEN st
    ELSE CHOOSE r \in {MoveLoop(next, i - 1, area) :
                         next \in {MoveAt(st, i, area)}} : TRUE

\* Boom.move with the descending loop replaced by the ascending one
BoomCirclesForward(b) ==
    MoveLoopForward([circles |-> b.circles, gone |-> <<>>], 1, b.area)

\* Boom.move testing against the controller's current size instead of the
\* area the burst was given
BoomCirclesLive(b) ==
    MoveLoop([circles |-> b.circles, gone |-> <<>>], Len(b.circles),
             [width |-> globalWidth, height |-> globalHeight])

\* the circles of b after the loop of Boom.move and the ones it removed
BoomCircles(b) ==
    MoveLoop([circles |-> b.circles, gone |-> <<>>], Len(b.circles), b.area)

\* Boom.move that never sets stop
BoomMoveNoStop(b) ==
    [b EXCEPT !.circles = BoomCircles(b).circles,
              !.gone    = @ \o BoomCircles(b).gone,
              !.moves   = @ + 1]

\* Boom.move
BoomMove(b) ==
    [b EXCEPT !.circles = BoomCircles(b).circles,
              !.stop    = (Len(BoomCircles(b).circles) = 0),
              !.gone    = @ \o BoomCircles(b).gone,
              !.moves   = @ + 1]

----------------------------------------------------------------------------
(* Host frame queue *)

\* the handles in a queue
Handles(queue) == {queue[k] : k \in 1..Len(queue)}

\* requestAnimationFrame: a handle that is not outstanding and differs from
\* the one the caller still holds (handles are opaque and never zero)
RequestId(queue, held) ==
    CHOOSE h \in 1..(Len(queue) + 2) :
        /\ h \notin Handles(queue) \cup {held}
        /\ \A g \in 1..(h - 1) : g \in Handles(queue) \cup {held}

\* cancelAnimationFrame: no effect on a handle that fired or was cancelled
CancelFrame(queue, h) == SelectSeq(queue, LAMBDA g : g # h)

----------------------------------------------------------------------------
(* CursorSpecialEffects *)

\* an entry of the history of operations: op applied to arg, which is a
\* burst id, a frame handle, or 0 for a surface
Op(op, arg) == [op |-> op, arg |-> arg]

\* stopAnimation that leaves the requested frame in the host queue
StopAnimationNoCancel(queue, held) ==
    [rafQueue |-> queue, animationId |-> Null, running |-> FALSE,
     ops |-> <<>>]

\* CursorSpecialEffects.stopAnimation; ops tells whether it called
\* cancelAnimationFrame (history)
StopAnimation(queue, held) ==
    [rafQueue    |-> IF held # Null THEN CancelFrame(queue, held) ELSE queue,
     animationId |-> Null,
     running     |-> FALSE,
     ops         |-> IF held # Null
                     THEN <<Op("cancelAnimationFrame", held)>>
                     ELSE <<>>]

\* the circles Boom.move splices out of boom b, each with the burst's id
\* and area (history)
RECURSIVE GoneUpTo(_, _, _)
GoneUpTo(b, cs, n) ==
    IF n = 0 THEN <<>>
    ELSE Append(GoneUpTo(b, cs, n - 1),
                [boom |-> b.id, area |-> b.area, circle |-> cs[n]])

GoneOf(b) == GoneUpTo(b, BoomCircles(b).gone, Len(BoomCircles(b).gone))

\* the loop body of run that skips an exhausted burst without removing it
RunAtNoSplice(st, i) ==
    IF st.booms[i].stop
    THEN st
    ELSE [booms |-> [st.booms EXCEPT ![i] = BoomMove(@)],
          gone  |-> st.gone \o GoneOf(st.booms[i]),
          ops   |-> st.ops \o <<Op("move", st.booms[i].id),
                                Op("draw", st.booms[i].id)>>]

\* the loop body of run that draws a burst before it moves it
RunAtDrawFirst(st, i) ==
    IF st.booms[i].stop
    THEN [booms |-> Splice(st.booms, i),
          gone  |-> st.gone,
          ops   |-> Append(st.ops, Op("splice", st.booms[i].id))]
    ELSE [booms |-> [st.booms EXCEPT ![i] = BoomMove(@)],
          gone  |-> st.gone \o GoneOf(st.booms[i]),
          ops   |-> st.ops \o <<Op("draw", st.booms[i].id),
                                Op("move", st.booms[i].id)>>]

\* one pass of the body of the loop of run, lines 215-221, at index i
\* (1-based): st.booms is this.booms, st.gone collects the circles the
\* moves splice out and st.ops the operations made (history)
RunAt(st, i) ==
    IF st.booms[i].stop
    THEN [booms |-> Splice(st.booms, i),
          gone  |-> st.gone,
          ops   |-> Append(st.ops, Op("splice", st.booms[i].id))]
    ELSE [booms |-> [st.booms EXCEPT ![i] = BoomMove(@)],
          gone  |-> st.gone \o GoneOf(st.booms[i]),
          ops   |-> st.ops \o <<Op("move", st.booms[i].id),
                                Op("draw", st.booms[i].id)>>]

\* the loop of run with an ascending index
RECURSIVE RunLoopForward(_, _)
RunLoopForward(st, i) ==
    IF i > Len(st.booms) THEN st
    ELSE CHOOSE r \in {RunLoopForward(next, i + 1) :
                         next \in {RunAt(st, i)}} : TRUE

\* the loop of run, line 214: i runs from length-1 down to 0 (here from
\* Len down to 1)
RECURSIVE RunLoop(_, _)
RunLoop(st, i) ==
    IF i < 1 THEN st
    ELSE CHOOSE r \in {RunLoop(next, i - 1) : next \in {RunAt(st, i)}} : TRUE

\* run that removes a burst in the tick that exhausts it
RunBoomsEager(bs) ==
    [RunLoop([booms |-> bs, gone |-> <<>>, ops |-> <<>>], Len(bs))
        EXCEPT !.booms = SelectSeq(@, LAMBDA b : ~b.stop)]

\* run whose loop ascends
RunBoomsForward(bs) ==
    RunLoopForward([booms |-> bs, gone |-> <<>>, ops |-> <<>>], 1)

\* the bursts after the loop of run, the circles it removed and what it
\* did
RunBooms(bs) == RunLoop([booms |-> bs, gone |-> <<>>, ops |-> <<>>], Len(bs))

\* the controller fields once run has requested frame h, cleared both
\* surfaces (lines 210-211), looped, and copied the compute surface to
\* the render surface (lines 225-229)
Looped(r, queue, h) ==
    [booms |-> r.booms, culled |-> r.gone, running |-> TRUE,
     animationId |-> h, rafQueue |-> Append(queue, h),
     ops |-> <<Op("clearRect computer", 0), Op("clearRect render", 0)>>
               \o r.ops \o <<Op("drawImage", 0)>>]

\* the controller fields once run has stopped the animation
Stopped(bs, s) ==
    [booms |-> bs, culled |-> <<>>, running |-> s.running,
     animationId |-> s.animationId, rafQueue |-> s.rafQueue, ops |-> s.ops]

\* run that requests a frame before looking at booms
RunAlwaysRequest(bs, queue, held) ==
    Looped(RunBooms(bs), queue, RequestId(queue, held))

\* run that clears the surfaces before it looks at booms
RunClearFirst(bs, queue, held) ==
    IF Len(bs) = 0
    THEN [Stopped(bs, StopAnimation(queue, held))
             EXCEPT !.ops = <<Op("clearRect computer", 0),
                              Op("clearRect render", 0)>> \o @]
    ELSE Looped(RunBooms(bs), queue, RequestId(queue, held))

\* CursorSpecialEffects.run: the controller fields after run() on bursts bs,
\* host queue `queue` and stored handle `held`
Run(bs, queue, held) ==
    IF Len(bs) = 0
    THEN Stopped(bs, StopAnimation(queue, held))
    ELSE Looped(RunBooms(bs), queue, RequestId(queue, held))

\* the smallest burst id no live burst bears (history)
FreshId(bs) ==
    CHOOSE n \in 1..(Len(bs) + 1) :
        /\ \A k \in 1..Len(bs) : bs[k].id # n
        /\ \A m \in 1..(n - 1) : \E k \in 1..Len(bs) : bs[k].id = m

\* every burst of bs has seen one more fired frame callback (history)
RECURSIVE FiredUpTo(_, _)
FiredUpTo(bs, n) ==
    IF n = 0 THEN <<>>
    ELSE Append(FiredUpTo(bs, n - 1), [bs[n] EXCEPT !.frames = @ + 1])

Fired(bs) == FiredUpTo(bs, Len(bs))

\* every burst of bs has seen one more run() called by a press (history)
RECURSIVE SyncedUpTo(_, _)
SyncedUpTo(bs, n) ==
    IF n = 0 THEN <<>>
    ELSE Append(SyncedUpTo(bs, n - 1), [bs[n] EXCEPT !.syncRuns = @ + 1])

Synced(bs) == SyncedUpTo(bs, Len(bs))

\* the controller fields after handleMouseDown that calls run() whatever
\* running is
MouseDownAlwaysRun(bs, isRunning, queue, held, b) ==
    Run(Synced(Append(bs, b)), queue, held)

\* the controller fields after handleMouseDown that never calls run()
MouseDownNoRun(bs, isRunning, queue, held, b) ==
    [booms |-> Append(bs, b), culled |-> <<>>, running |-> isRunning,
     animationId |-> held, rafQueue |-> queue, ops |-> <<>>]

\* the controller fields after handleMouseDown has appended burst b
MouseDown(bs, isRunning, queue, held, b) ==
    IF ~isRunning
    THEN Run(Synced(Append(bs, b)), queue, held)
    ELSE [booms |-> Append(bs, b), culled |-> <<>>, running |-> isRunning,
          animationId |-> held, rafQueue |-> queue, ops |-> <<>>]

----------------------------------------------------------------------------
(* Inputs *)

\* what Boom.init draws for one circle: angle in [pi-1, pi+1], speed in
\* [1, 6], color '#' and six digits of 8..F
Shot(a, v, c) == [angle |-> a, speed |-> v, color |-> c]

Size(w, h) == [width |-> w, height |-> h]

Point(x, y) == [x |-> x, y |-> y]

\* window.innerWidth x window.innerHeight, in pixels
Viewports == {Size(2, 3), Size(4, 3)}

\* (clientX, clientY) of a press, in pixels
Origins == {Point(1, 1)}

Shots == {Shot(-30, 200, "#8899AA"), Shot(30, 600, "#FFEEDD")}

\* the inputs of the single-burst runs
OneOrigins == {Point(0, 0), Point(1, 0), Point(1, 2)}

OneShots == {Shot(-30, 200, "#8899AA"), Shot(30, 200, "#FFEEDD"),
             Shot(0, 105, "#ABCDEF"), Shot(57, 600, "#888888")}

\* the end-to-end scenario: press at (100, 100) in a viewport of 800 x 600
ScenViewport == Size(800, 600)

ScenOrigin == Point(100, 100)

ScenShots == {Shot(a, v, "#CCCCCC") : a \in {-57, 0, 57}, v \in {100, 600}}

----------------------------------------------------------------------------
(* State machine *)

\* the events init registers a listener for, lines 193-195
Listened == {"mousedown", "pagehide", "resize"}

\* the state after `new CursorSpecialEffects().init()` in a window of size v
InitIn(v) ==
    /\ booms = <<>>
    /\ running = FALSE
    /\ animationId = Null
    /\ globalWidth = v.width
    /\ globalHeight = v.height
    /\ canvas = [render |-> v, computer |-> v]
    /\ rafQueue = <<>>
    /\ listeners = Listened
    /\ culled = <<>>
    /\ ops = <<>>
    /\ lastEvent = "init"

Init == \E v \in Viewports : InitIn(v)

\* the handler leaves the controller fields and the host queue as r says
Becomes(r) ==
    /\ booms' = r.booms
    /\ running' = r.running
    /\ animationId' = r.animationId
    /\ rafQueue' = r.rafQueue
    /\ culled' = r.culled
    /\ ops' = r.ops

\* the mousedown listener, for a press at pixel o whose burst draws `shots`
HandleMouseDown(o, shots) ==
    /\ "mousedown" \in listeners
    /\ Len(booms) < MaxBooms
    /\ o.x < globalWidth /\ o.y < globalHeight
    /\ \E b \in {NewBoom(FreshId(booms), Point(Px(o.x), Px(o.y)),
                         Size(globalWidth, globalHeight), shots)} :
       \E r \in {MouseDown(booms, running, rafQueue, animationId, b)} :
           Becomes(r)
    /\ lastEvent' = "mousedown"
    /\ UNCHANGED <<globalWidth, globalHeight, canvas, listeners>>

\* the host fires the oldest requested frame callback, which is run
Frame ==
    /\ rafQueue # <<>>
    /\ \E r \in {Run(Fired(booms), Tail(rafQueue), animationId)} :
           Becomes(r)
    /\ lastEvent' = "frame"
    /\ UNCHANGED <<globalWidth, globalHeight, canvas, listeners>>

\* the pagehide listener without its call of stopAnimation
HandlePageHideNoStop ==
    /\ "pagehide" \in listeners
    /\ booms' = <<>>
    /\ culled' = <<>>
    /\ ops' = <<>>
    /\ lastEvent' = "pagehide"
    /\ UNCHANGED <<running, animationId, rafQueue, globalWidth, globalHeight,
                   canvas, listeners>>

\* the pagehide listener that stops the animation and keeps booms
HandlePageHideKeepBooms ==
    /\ "pagehide" \in listeners
    /\ \E r \in {Stopped(booms, StopAnimation(rafQueue, animationId))} :
           Becomes(r)
    /\ lastEvent' = "pagehide"
    /\ UNCHANGED <<globalWidth, globalHeight, canvas, listeners>>

\* the pagehide listener
HandlePageHide ==
    /\ "pagehide" \in listeners
    /\ \E r \in {Stopped(<<>>, StopAnimation(rafQueue, animationId))} :
           Becomes(r)
    /\ lastEvent' = "pagehide"
    /\ UNCHANGED <<globalWidth, globalHeight, canvas, listeners>>

\* the resize listener, the window now being of size v
HandleResize(v) ==
    /\ "resize" \in listeners
    /\ globalWidth' = v.width
    /\ globalHeight' = v.height
    /\ canvas' = [render |-> v, computer |-> v]
    /\ culled' = <<>>
    /\ ops' = <<>>
    /\ lastEvent' = "resize"
    /\ UNCHANGED <<booms, running, animationId, rafQueue, listeners>>

Press == \E o \in Origins, shots \in [1..CircleCount -> Shots] :
             HandleMouseDown(o, shots)

PageHide == HandlePageHide

Resize == \E v \in Viewports : HandleResize(v)

Next == Press \/ Frame \/ PageHide \/ Resize

\* the controller under any sequence of events
Spec == Init /\ [][Next]_vars

\* one burst at a time: a press arrives only when the controller is not
\* running, and nothing but frame callbacks follows it; the host keeps
\* firing the callbacks it was asked for
OnePress == /\ ~running
            /\ \E o \in OneOrigins, shots \in [1..CircleCount -> OneShots] :
                   HandleMouseDown(o, shots)

OneNext == OnePress \/ Frame

OneSpec == Init /\ [][OneNext]_vars /\ WF_vars(Frame)

\* the end-to-end scenario
ScenInit == InitIn(ScenViewport)

ScenPress == /\ ~running
             /\ \E shots \in [1..CircleCount -> ScenShots] :
                    HandleMouseDown(ScenOrigin, shots)

ScenNext == ScenPress \/ Frame

ScenSpec == ScenInit /\ [][ScenNext]_vars /\ WF_vars(Frame)

----------------------------------------------------------------------------
(* Controller states *)

\* a frame callback is requested and has neither fired nor been cancelled
FramePending == rafQueue # <<>>

IdleState == booms = <<>> /\ ~FramePending /\ ~running

RunningState == booms # <<>> /\ FramePending

\* no burst left, the loop still scheduled
DrainingState == booms = <<>> /\ FramePending /\ running

\* every burst of the controller is exhausted
AllStopped == \A k \in 1..Len(booms) : booms[k].stop

----------------------------------------------------------------------------
(* Properties *)

\* C1: from Idle one pointer-press makes the controller Running (a burst
\* active, running set, one frame requested); when only frame callbacks
\* follow, the controller is eventually Idle again by itself.
C1_PressRunsThenIdle ==
    /\ [][(IdleState /\ lastEvent' = "mousedown")
            => (running' /\ Len(rafQueue') = 1 /\ Len(booms') = 1)]_vars
    /\ (running ~> IdleState)

\* C1 witness: a loop started by a press has ended in Idle on a frame
C1_Witness == IdleState /\ lastEvent = "frame"

\* C2: at most one frame handle is outstanding, and a pointer-press that
\* finds the controller running requests no frame.
C2_OneFrameHandle ==
    /\ [](Len(rafQueue) <= 1)
    /\ [][(running /\ lastEvent' = "mousedown") => rafQueue' = rafQueue]_vars

\* C2 witness: a press was handled while the loop was running
C2_Witness ==
    /\ lastEvent = "mousedown"
    /\ Len(booms) >= 2
    /\ Len(rafQueue) = 1

\* C4: between events, running is true exactly when a frame callback is
\* requested and has neither fired nor been cancelled.
C4_RunningIffFramePending == running <=> FramePending

\* C4 witness: a frame callback has fired and requested the next one
C4_Witness == lastEvent = "frame" /\ running /\ Len(rafQueue) = 1

\* C5 as stated: every state between events is Idle or Running.
C5_IdleOrRunning == IdleState \/ RunningState

\* C5 amended: every state between events is Idle, Running or Draining (no
\* burst, running, one frame requested); Draining is entered only by a
\* frame callback that removed the last bursts, all exhausted; bursts are
\* never active without a requested frame.
C5_IdleRunningOrDraining ==
    /\ [](IdleState \/ (RunningState /\ running) \/ DrainingState)
    /\ [][(DrainingState' /\ ~DrainingState)
            => (lastEvent' = "frame" /\ booms # <<>> /\ AllStopped)]_vars

\* C5 witness: the frame callback that removed the last burst has run
C5_Witness == DrainingState /\ lastEvent = "frame"

\* C3 as stated: in the end-to-end scenario every particle that leaves the
\* burst has passed y = 600.
C3_AllExceedHeight ==
    \A k \in 1..Len(culled) : culled[k].circle.position.y > Px(600)

\* the out-of-bounds conditions as the burst contract words them
LeftBounds(c, area) ==
    \/ c.position.x < 0
    \/ c.position.x > Px(area.width)
    \/ c.position.y > Px(area.height)

\* C3 amended: in the end-to-end scenario every particle leaves the bounds
\* of 800 x 600 (below y = 600, or sideways with x < 0 or x > 800) after
\* finitely many ticks and is removed, the exhausted burst is removed and
\* the controller returns to Idle, whatever angles and speeds were drawn.
C3_AllLeaveThenIdle ==
    /\ [](\A k \in 1..Len(culled) :
             /\ culled[k].area = ScenViewport
             /\ LeftBounds(culled[k].circle, ScenViewport))
    /\ [](\A k \in 1..Len(booms) :
             booms[k].stop <=> Len(booms[k].gone) = booms[k].circleCount)
    /\ (running ~> IdleState)

\* C3 witness: the scenario's loop has ended, the viewport being 800 x 600
C3_Witness ==
    /\ IdleState
    /\ lastEvent = "frame"
    /\ Size(globalWidth, globalHeight) = ScenViewport

\* C6 as stated: a burst has received as many move calls as frame callbacks
\* have fired since its creation.
C6_MovesEqualFrames ==
    \A k \in 1..Len(booms) : booms[k].moves = booms[k].frames

\* C6 amended: a burst is moved once by every run() that finds it active
\* and at no other time; run() is called by every fired frame callback and
\* also by the press handler that finds the controller not running, so a
\* burst has received as many moves as frames fired since its creation,
\* plus one if its own press started the loop; a press that finds the
\* controller running only appends the initialized burst.
C6_MovesPerRun ==
    /\ [](\A k \in 1..Len(booms) :
             /\ booms[k].moves = booms[k].frames + booms[k].syncRuns
             /\ booms[k].syncRuns \in {0, 1})
    /\ [][lastEvent' = "mousedown"
            => /\ Len(booms') = Len(booms) + 1
               /\ booms'[Len(booms')].frames = 0
               /\ booms'[Len(booms')].moves = (IF running THEN 0 ELSE 1)
               /\ running => SubSeq(booms', 1, Len(booms)) = booms]_vars

\* C6 witness: a burst whose press started the loop has seen frames, next
\* to one appended while the loop ran
C6_Witness ==
    /\ Len(booms) = 2
    /\ booms[1].syncRuns = 1 /\ booms[1].frames >= 1
    /\ booms[2].syncRuns = 0 /\ booms[2].frames >= 1

\* 0 + 1 + ... + (n - 1)
RECURSIVE SumBelow(_)
SumBelow(n) == IF n <= 0 THEN 0 ELSE (n - 1) + SumBelow(n - 1)

\* the closed form of a particle's position after n steps
ClosedForm(c, n) ==
    /\ c.renderCount = n
    /\ c.position.x - c.origin.x = n * Sin100(c.angle) * c.speed
    /\ c.position.y - c.origin.y =
           n * Cos100(c.angle) * c.speed + Gravity * SumBelow(n)

\* C7: a particle stepped n times (its burst moved n times) is at
\* origin + n * sin(angle) * speed in x and at
\* origin + n * cos(angle) * speed + 0.3 * (0 + 1 + ... + (n - 1)) in y,
\* with ticksElapsed = n; this holds of the particles a burst keeps and of
\* each particle at the step that removed it.
C7_ClosedForm ==
    /\ \A k \in 1..Len(booms) : \A j \in 1..Len(booms[k].circles) :
           ClosedForm(booms[k].circles[j], booms[k].moves)
    /\ \A k \in 1..Len(culled) :
           ClosedForm(culled[k].circle, culled[k].circle.renderCount)
    /\ \A k \in 1..Len(booms) : \A j \in 1..Len(booms[k].gone) :
           /\ ClosedForm(booms[k].gone[j], booms[k].gone[j].renderCount)
           /\ booms[k].gone[j].renderCount \in 1..booms[k].moves

\* C7 witness: a particle has been stepped four times, gravity included
C7_Witness ==
    \E k \in 1..Len(booms) : \E j \in 1..Len(booms[k].circles) :
        /\ booms[k].circles[j].renderCount = 4
        /\ booms[k].circles[j].position.y - booms[k].circles[j].origin.y
             = 4 * Cos100(booms[k].circles[j].angle) * booms[k].circles[j].speed
               + 6 * Gravity

\* the particles of cs[1..n], each stepped once, that stay in bounds
RECURSIVE SteppedKept(_, _, _)
SteppedKept(cs, n, area) ==
    IF n = 0 THEN <<>>
    ELSE IF LeftBounds(CircleMove(cs[n]), area)
         THEN SteppedKept(cs, n - 1, area)
         ELSE Append(SteppedKept(cs, n - 1, area), CircleMove(cs[n]))

\* the particles of cs[n..1], each stepped once, that leave the bounds
RECURSIVE SteppedLeft(_, _, _)
SteppedLeft(cs, n, area) ==
    IF n = 0 THEN <<>>
    ELSE IF LeftBounds(CircleMove(cs[n]), area)
         THEN <<CircleMove(cs[n])>> \o SteppedLeft(cs, n - 1, area)
         ELSE SteppedLeft(cs, n - 1, area)

\* burst a, moved once, is burst b
MovedOnce(a, b) ==
    /\ b.moves = a.moves + 1
    /\ b.circles = SteppedKept(a.circles, Len(a.circles), a.area)
    /\ b.gone = a.gone \o SteppedLeft(a.circles, Len(a.circles), a.area)
    /\ \A j \in 1..Len(b.circles) : ~LeftBounds(b.circles[j], b.area)

\* C8: one move of a burst steps every particle it held exactly once,
\* removes exactly those whose stepped position has x < 0, x > width or
\* y > height, keeps the others in order (those on x = 0, x = width,
\* y = height or above y = 0 included), and leaves none out of bounds.
C8_MoveStepsAndCulls ==
    [][\A k \in 1..Len(booms) :
          (lastEvent' = "frame" /\ ~booms[k].stop)
          => \E j \in 1..Len(booms') :
                 /\ booms'[j].id = booms[k].id
                 /\ MovedOnce(Fired(booms)[k], booms'[j])]_vars

\* a particle on the edge of the bounds
OnEdge(c, area) ==
    \/ c.position.x = 0
    \/ c.position.x = Px(area.width)
    \/ c.position.y = Px(area.height)

\* C8 witness: a move has removed the second particle of a burst and kept
\* the first, which is on the edge of the bounds
C8_Witness ==
    /\ lastEvent = "frame"
    /\ \E k \in 1..Len(booms) :
           /\ Len(booms[k].circles) = 1
           /\ OnEdge(booms[k].circles[1], booms[k].area)
           /\ Len(culled) >= 1
           /\ culled[1].boom = booms[k].id

\* C9: after a move, a burst is exhausted exactly when its collection is
\* empty, which is exactly when every particle it was initialized with has
\* met an out-of-bounds condition of the burst's stored bounds and has been
\* removed.
C9_ExhaustedIffAllLeft ==
    \A k \in 1..Len(booms) :
        /\ \A j \in 1..Len(booms[k].gone) :
               LeftBounds(booms[k].gone[j], booms[k].area)
        /\ Len(booms[k].circles) + Len(booms[k].gone) = booms[k].circleCount
        /\ booms[k].moves >= 1 =>
               /\ booms[k].stop <=> Len(booms[k].circles) = 0
               /\ booms[k].stop <=> Len(booms[k].gone) = booms[k].circleCount

\* C9 witness: a burst is exhausted whose particles left at different moves
C9_Witness ==
    \E k \in 1..Len(booms) :
        /\ booms[k].stop
        /\ booms[k].gone[1].renderCount < booms[k].moves

\* C10: a burst is not exhausted before its first move, and an exhausted
\* burst stays exhausted for as long as the controller holds it.
C10_ExhaustedLateAndStable ==
    /\ [](\A k \in 1..Len(booms) : booms[k].stop => booms[k].moves >= 1)
    /\ [][\A k \in 1..Len(booms) : \A j \in 1..Len(booms') :
            (booms[k].stop /\ booms'[j].id = booms[k].id) => booms'[j].stop]_vars

\* C10 witness: an exhausted burst is still held after a later press
C10_Witness ==
    /\ lastEvent = "mousedown"
    /\ Len(booms) = 2
    /\ booms[1].stop
    /\ ~booms[2].stop /\ booms[2].moves = 0

\* the ids of the bursts of bs
Ids(bs) == {bs[k].id : k \in 1..Len(bs)}

\* C11: a frame callback removes every burst that is exhausted when it
\* starts, so an exhausted burst is gone after the first frame callback
\* that follows the run which exhausted it; a frame callback removes no
\* burst that is not exhausted when it starts, and neither does a press or
\* a resize: only teardown removes bursts that are not exhausted.
C11_RemovedNextFrame ==
    /\ [][lastEvent' = "frame"
            => \A k \in 1..Len(booms) :
                   booms[k].stop <=> booms[k].id \notin Ids(booms')]_vars
    /\ [][lastEvent' \in {"mousedown", "resize"}
            => \A k \in 1..Len(booms) : booms[k].id \in Ids(booms')]_vars
    /\ [][(lastEvent' = "pagehide" /\ booms' # booms) => booms' = <<>>]_vars

\* C11 witness: a frame callback has removed an exhausted burst and moved
\* another one, which it kept
C11_Witness ==
    /\ lastEvent = "frame"
    /\ \E n \in 1..Len(ops) : ops[n].op = "splice"
    /\ \E n \in 1..Len(ops) : ops[n].op = "move" /\ ops[n].arg \in Ids(booms)

\* C12: after a pagehide, whatever the state it arrived in, no burst is
\* active, running is false, no frame handle is stored and none is
\* outstanding at the host; a frame is then requested again only by a
\* pointer-press, so no frame callback fires before one.
C12_TeardownStops ==
    /\ [](lastEvent = "pagehide"
            => (booms = <<>> /\ ~running /\ animationId = Null
                /\ rafQueue = <<>>))
    /\ [][(rafQueue = <<>> /\ rafQueue' # <<>>)
            => lastEvent' = "mousedown"]_vars
    /\ [][lastEvent' = "frame" => rafQueue # <<>>]_vars

\* C12 witness: a pagehide has cancelled the frame that was requested
C12_Witness ==
    /\ lastEvent = "pagehide"
    /\ Len(ops) = 1 /\ ops[1].op = "cancelAnimationFrame"
    /\ rafQueue = <<>>

\* C13: a resize sets globalWidth, globalHeight and the size of both
\* surfaces to the new window size and changes nothing else: booms (so the
\* area of every burst), running, the stored handle and the host queue
\* stay as they are.  No event changes the area of a burst; a burst gets as
\* area the size current at its press, keeps only particles inside that
\* area and removes only particles outside it, whatever the current size.
C13_ResizeKeepsBounds ==
    /\ [][lastEvent' = "resize"
            => /\ UNCHANGED <<booms, running, animationId, rafQueue>>
               /\ canvas'.render = [width |-> globalWidth',
                                    height |-> globalHeight']
               /\ canvas'.computer = canvas'.render]_vars
    /\ [][\A k \in 1..Len(booms) : \A j \in 1..Len(booms') :
            booms'[j].id = booms[k].id => booms'[j].area = booms[k].area]_vars
    /\ [][lastEvent' = "mousedown"
            => booms'[Len(booms')].area = [width |-> globalWidth,
                                           height |-> globalHeight]]_vars
    /\ [](\A k \in 1..Len(booms) :
             /\ \A j \in 1..Len(booms[k].circles) :
                    ~LeftBounds(booms[k].circles[j], booms[k].area)
             /\ \A j \in 1..Len(booms[k].gone) :
                    LeftBounds(booms[k].gone[j], booms[k].area))

\* C13 witness: of two bursts with different areas, created before and
\* after a resize, one keeps a particle that is outside the other's area
\* and the other has removed a particle that is inside the first one's
C13_Witness ==
    \E k \in 1..Len(booms) : \E j \in 1..Len(booms) :
        /\ booms[k].area # booms[j].area
        /\ \E n \in 1..Len(booms[k].circles) :
               LeftBounds(booms[k].circles[n], booms[j].area)
        /\ \E n \in 1..Len(booms[j].gone) :
               ~LeftBounds(booms[j].gone[n], booms[k].area)

\* what the constructor of a particle fixes
Static(c) ==
    [origin |-> c.origin, color |-> c.color, speed |-> c.speed,
     angle |-> c.angle]

\* the loop state of Boom.move for the circles cs
LoopState(cs) == [circles |-> cs, gone |-> <<>>]

\* the pass of Boom.move at index i of cs leaves the circles other than
\* cs[i] as they are, in their order
OthersUntouched(cs, i, area) ==
    IF Len(MoveAt(LoopState(cs), i, area).circles) = Len(cs)
    THEN Splice(MoveAt(LoopState(cs), i, area).circles, i) = Splice(cs, i)
    ELSE MoveAt(LoopState(cs), i, area).circles = Splice(cs, i)

\* C14: a step changes of its particle only position and ticksElapsed
\* (origin, color, speed and angle stay as constructed) and leaves every
\* other particle of the burst as it is; every particle's origin, kept or
\* removed, is the origin of its burst, which no event changes, and the
\* particles a burst holds after an event have the origin, color, speed
\* and angle of particles it held before.
C14_StepTouchesOwnMotionOnly ==
    /\ [](\A k \in 1..Len(booms) : \A i \in 1..Len(booms[k].circles) :
             /\ [CircleMove(booms[k].circles[i])
                    EXCEPT !.position = booms[k].circles[i].position,
                           !.renderCount = booms[k].circles[i].renderCount]
                  = booms[k].circles[i]
             /\ CircleMove(booms[k].circles[i]).renderCount
                  = booms[k].circles[i].renderCount + 1
             /\ OthersUntouched(booms[k].circles, i, booms[k].area))
    /\ [](\A k \in 1..Len(booms) :
             /\ \A i \in 1..Len(booms[k].circles) :
                    booms[k].circles[i].origin = booms[k].origin
             /\ \A i \in 1..Len(booms[k].gone) :
                    booms[k].gone[i].origin = booms[k].origin)
    /\ [][\A k \in 1..Len(booms) : \A j \in 1..Len(booms') :
            booms'[j].id = booms[k].id
            => /\ booms'[j].origin = booms[k].origin
               /\ \A n \in 1..Len(booms'[j].circles) :
                      \E m \in 1..Len(booms[k].circles) :
                          Static(booms'[j].circles[n])
                            = Static(booms[k].circles[m])]_vars

\* C14 witness: two particles of a burst, drawn differently, have been
\* stepped twice and are at different positions away from their origin
C14_Witness ==
    \E k \in 1..Len(booms) :
        /\ Len(booms[k].circles) = 2
        /\ booms[k].moves = 2
        /\ booms[k].circles[1].color # booms[k].circles[2].color
        /\ booms[k].circles[1].position # booms[k].circles[2].position
        /\ booms[k].circles[1].position # booms[k].origin
        /\ booms[k].circles[2].position # booms[k].origin

\* burst b is as init leaves a burst constructed with count k at origin o
FreshlyInitialized(b, k, o) ==
    /\ b.circleCount = k
    /\ Len(b.circles) = k
    /\ \A j \in 1..Len(b.circles) :
           /\ b.circles[j].position = o
           /\ b.circles[j].origin = o
           /\ b.circles[j].renderCount = 0
    /\ ~b.stop
    /\ b.inits = 1

\* C15: a burst constructed with particle count k, for every k from 0 to
\* the default count, and then initialized holds k particles, each at the
\* burst's origin with ticksElapsed 0, and is not exhausted; in the
\* controller a burst that has not been moved yet is in that state, and
\* every active burst has been initialized exactly once.
C15_InitGivesKParticles ==
    /\ \A k \in 0..CircleCount : \A shots \in [1..k -> Shots] :
       \A o \in Origins : \A v \in Viewports :
           FreshlyInitialized(
               BoomInit(BoomConstructor(1, Point(Px(o.x), Px(o.y)), v, k),
                        shots),
               k, Point(Px(o.x), Px(o.y)))
    /\ \A n \in 1..Len(booms) :
           /\ booms[n].inits = 1
           /\ booms[n].circleCount = CircleCount
           /\ booms[n].moves = 0
               => FreshlyInitialized(booms[n], CircleCount, booms[n].origin)

\* C15 witness: a burst appended by a press while the loop runs is as init
\* left it, next to a burst that has been moved
C15_Witness ==
    /\ lastEvent = "mousedown"
    /\ Len(booms) = 2
    /\ booms[1].moves >= 1
    /\ booms[2].moves = 0
    /\ Len(booms[2].circles) = CircleCount
    /\ \A j \in 1..CircleCount :
           booms[2].circles[j].position = booms[2].origin

\* C16: no event gives a burst more particles than it held before it, a
\* move of any burst the controller holds leaves it at most as many
\* particles as it had, and a burst never holds more than it was
\* initialized with.
C16_CountNeverGrows ==
    /\ [][\A k \in 1..Len(booms) : \A j \in 1..Len(booms') :
            booms'[j].id = booms[k].id
            => Len(booms'[j].circles) <= Len(booms[k].circles)]_vars
    /\ [](\A k \in 1..Len(booms) :
             /\ Len(BoomMove(booms[k]).circles) <= Len(booms[k].circles)
             /\ Len(booms[k].circles) <= booms[k].circleCount)

\* C16 witness: a burst that lost a particle has been moved again and
\* still holds another
C16_Witness ==
    \E k \in 1..Len(booms) :
        /\ Len(booms[k].circles) >= 1
        /\ Len(booms[k].gone) >= 1
        /\ booms[k].gone[1].renderCount < booms[k].moves

\* C17 as stated: a pagehide removes the controller's mousedown and resize
\* listeners, so the event after it is neither a handled press nor a
\* handled resize.
C17_TeardownRemovesListeners ==
    /\ [][lastEvent = "pagehide"
            => lastEvent' \notin {"mousedown", "resize"}]_vars
    /\ [][lastEvent' = "pagehide"
            => listeners' \cap {"mousedown", "resize"} = {}]_vars

\* the places of entry e in the history h
Places(h, e) == {n \in 1..Len(h) : h[n] = e}

\* C18: a frame callback that finds bursts moves every burst that is not
\* exhausted when it starts exactly once and draws it exactly once, right
\* after the move, and keeps it; it removes every burst that is exhausted
\* when it starts, once, without moving or drawing it; this holds for
\* every order of exhausted and other bursts in the collection.
C18_FrameProcessesEachOnce ==
    [][(lastEvent' = "frame" /\ booms # <<>>)
        => \A k \in 1..Len(booms) :
              IF booms[k].stop
              THEN /\ Cardinality(Places(ops', Op("splice", booms[k].id))) = 1
                   /\ Places(ops', Op("move", booms[k].id)) = {}
                   /\ Places(ops', Op("draw", booms[k].id)) = {}
                   /\ booms[k].id \notin Ids(booms')
              ELSE /\ Places(ops', Op("splice", booms[k].id)) = {}
                   /\ \E n \in 1..(Len(ops') - 1) :
                          /\ Places(ops', Op("move", booms[k].id)) = {n}
                          /\ Places(ops', Op("draw", booms[k].id)) = {n + 1}
                   /\ \E j \in 1..Len(booms') :
                          /\ booms'[j].id = booms[k].id
                          /\ booms'[j].moves = booms[k].moves + 1]_vars

\* C18 witness: a frame callback has removed the exhausted burst at the
\* end of the collection and then moved and drawn the burst before it
C18_Witness ==
    /\ lastEvent = "frame"
    /\ Len(ops) = 6
    /\ ops[3].op = "splice"
    /\ ops[4].op = "move" /\ ops[5] = Op("draw", ops[4].arg)
    /\ ops[4].arg < ops[3].arg
    /\ Ids(booms) = {ops[4].arg}

\* the operations of run that clear or write a surface or step a burst
DrawingOps ==
    {"clearRect computer", "clearRect render", "move", "draw", "drawImage"}

\* C19: a frame callback that finds no burst requests no frame (none is
\* outstanding afterwards), leaves running false and the stored handle
\* empty, clears and writes no surface and steps no burst.
C19_EmptyFrameStopsWithoutDrawing ==
    [][(lastEvent' = "frame" /\ booms = <<>>)
        => /\ rafQueue' = <<>>
           /\ ~running'
           /\ animationId' = Null
           /\ booms' = <<>>
           /\ culled' = <<>>
           /\ \A n \in 1..Len(ops') : ops'[n].op \notin DrawingOps]_vars

\* C19 witness: a frame callback found no burst and stopped the loop,
\* cancelling only the handle it was fired for
C19_Witness ==
    /\ lastEvent = "frame"
    /\ booms = <<>>
    /\ ~running /\ animationId = Null /\ rafQueue = <<>>
    /\ ops # <<>>
    /\ \A n \in 1..Len(ops) : ops[n].op = "cancelAnimationFrame"

\* C20: between events, whenever a burst is active the controller is
\* running and exactly one frame callback is outstanding, the one whose
\* handle is stored; whenever the controller is not running no burst is
\* active.
C20_NoStrandedBurst ==
    /\ booms # <<>>
        => (running /\ Len(rafQueue) = 1 /\ rafQueue[1] = animationId)
    /\ ~running => booms = <<>>

\* C20 witness: a press arrived after the frame callback that removed the
\* last burst and before the next one; its burst waits for the frame that
\* is still requested
C20_Witness ==
    /\ lastEvent = "mousedown"
    /\ Len(booms) = 1
    /\ booms[1].moves = 0 /\ booms[1].syncRuns = 0
    /\ running /\ Len(rafQueue) = 1

====
